---- MODULE Spec2Model ----
(***************************************************************************)
(* A model of the checkpointed workflow core of agentic-template:          *)
(*   - utils/state_utils.py         merge_partial_state_update             *)
(*   - agents/resilient_postgres_saver.py   bounded retry with reconnect   *)
(*   - agents/workflows/index.py, agents/workflows/sample/index.py,        *)
(*     agents/orchestrator.py       start / resume of a two-node graph     *)
(*   - agents/workflows/index.py    _serialize_result                      *)
(*   - controllers/workflow_controller.py   the HTTP handlers              *)
(*   - agents/workflows/index.py    create_checkpointer                    *)
(* Each part has its own specification; the others' variables stay idle.   *)
(***************************************************************************)
EXTENDS Integers, Sequences, FiniteSets, TLC

VARIABLES
    \* ---- merge_partial_state_update (a pure function and its arguments)
    mS,        \* current_state argument
    mP,        \* partial_update argument
    mOut,      \* what the call produced
    mObj,      \* which object the result holds under each key
    mPc,       \* "args" before the call, "done" after it
    \* ---- ResilientPostgresSaver (one store operation under retry)
    max_retries, \* self.max_retries
    conn,      \* self.conn: [id, kind, open]
    rPc,       \* "idle", "try", "sleep", "reconnect", "done"
    rOp,       \* the wrapped operation: put, get_tuple, list, put_writes, setup
    retries,   \* the local counter of _execute_with_retries
    rPlan,     \* what the underlying call does on its i-th invocation
    rAttempts, \* history: one record per invocation of the underlying call
    rEvents,   \* history: "invoke", "sleep", "reconnect" in program order
    rOutcome,  \* "none", or how the call ended: [kind, value]
    \* ---- the workflow engine behind the orchestrator
    store,     \* the checkpointer: thread_id -> latest checkpoint
    call,      \* caller -> the request it is serving and where it stands
    used,      \* thread ids uuid4 has produced
    known,     \* thread ids a start call has returned to its caller
    ncalls,    \* requests begun so far
    lastRet,   \* what the request that ended last gave its caller
    \* ---- _serialize_result (a pure function and its argument)
    sIn,       \* the result argument
    sOut,      \* what the call produced
    sPc,       \* "args" before the call, "done" after it
    \* ---- the HTTP handlers of workflow_controller.py
    hReq,      \* the request: [handler, workflow_name, thread_id, checkpoint, fault]
    hResp,     \* the response: [code, status, called]
    hPc,       \* "args" before the handler runs, "done" after it
    \* ---- two callers sharing one ResilientPostgresSaver
    pConn,     \* self.conn: [id, open]
    pPc,       \* caller -> [pc, retries]; pc is "try", "sleep", "closed", "done"
    pUses,     \* history: the handle each underlying call ran on
    pIds,      \* connection handles created so far
    \* ---- create_checkpointer
    kEnv,      \* the environment: [DATABASE_TYPE, DATABASE_URL]
    kResult,   \* what the call gave: [saver, raised, pool]
    kPc        \* "env", "pool", "setup", "done"

mergeVars == <<mPc, mS, mP, mOut, mObj>>
retryVars == <<max_retries, conn, rPc, rOp, retries, rPlan, rAttempts, rEvents, rOutcome>>
engineVars == <<store, call, used, known, ncalls, lastRet>>

serializeVars == <<sPc, sIn, sOut>>
controllerVars == <<hPc, hReq, hResp>>
sharedVars == <<pConn, pPc, pUses, pIds>>
checkpointerVars == <<kPc, kEnv, kResult>>

vars == <<mergeVars, retryVars, engineVars, serializeVars, controllerVars, sharedVars,
          checkpointerVars>>

(***************************************************************************)
(* Python values.  Every value is a record of the same shape so that any   *)
(* two values can be compared: t is the Python type, l the items of a      *)
(* list, d the items of a dict (0 = key not present), s a scalar.          *)
(***************************************************************************)
MaxMsgLen == 1                       \* longest messages list of an argument
MsgAtoms == {1, 2}                   \* distinct message objects
DataKeys == {"a", "b", "c"}              \* keys a workflow_data bag may hold
EmptyD == [k \in DataKeys |-> 0]

AbsentV == [t |-> "absent", l |-> <<>>, d |-> EmptyD, s |-> 0]
RaiseV == [t |-> "raise", l |-> <<>>, d |-> EmptyD, s |-> 0]
ListV(q) == [t |-> "list", l |-> q, d |-> EmptyD, s |-> 0]
DictV(f) == [t |-> "dict", l |-> <<>>, d |-> f, s |-> 0]
StrV(n) == [t |-> "str", l |-> <<>>, d |-> EmptyD, s |-> n]

IsList(v) == v.t = "list"
IsDict(v) == v.t = "dict"

SeqsUpTo(S, n) == UNION {[1..k -> S] : k \in 0..n}

StateKeys == {"messages", "workflow_data", "thread_id", "session_id", "current_step"}
EmptyState == [k \in StateKeys |-> AbsentV]
Has(dict, k) == dict[k].t # "absent"

\* dict.get(key, default)
Get(dict, k, default) == IF Has(dict, k) THEN dict[k] ELSE default

\* a + b on two Python values: defined on two lists, TypeError otherwise
PyListConcat(a, b) == IF IsList(a) /\ IsList(b) THEN ListV(a.l \o b.l) ELSE RaiseV

\* a.copy() followed by .update(b): defined on two dicts, an error otherwise
PyDictUpdate(a, b) ==
    IF IsDict(a) /\ IsDict(b)
    THEN DictV([k \in DataKeys |-> IF b.d[k] # 0 THEN b.d[k] ELSE a.d[k]])
    ELSE RaiseV

\* MergeMessages with the append lost: the new list replaces the history
MergeMessages_Replace(merged, value) == value

\* MergeMessages without the isinstance check on the existing value
MergeMessages_NoGuard(merged, value) ==
    PyListConcat(Get(merged, "messages", ListV(<<>>)), value)

\* state_utils.py:30-39, the messages branch
MergeMessages(merged, value) ==
    LET existing_messages == Get(merged, "messages", ListV(<<>>))
    IN  PyListConcat(IF IsList(existing_messages) THEN existing_messages ELSE ListV(<<>>),
                     value)

\* MergeWorkflowData with the overlay lost: the new bag replaces the old one
MergeWorkflowData_Replace(merged, value) == value

\* state_utils.py:41-49, the workflow_data branch
MergeWorkflowData(merged, value) ==
    LET existing_workflow_data == Get(merged, "workflow_data", DictV(EmptyD))
    IN  IF IsDict(existing_workflow_data)
        THEN PyDictUpdate(existing_workflow_data, value)
        ELSE value

\* MergeKey without the branch that preserves thread_id and session_id
MergeKey_NoPreserve(current_state, merged, key, value) ==
    IF key = "messages" /\ IsList(value)
    THEN MergeMessages(merged, value)
    ELSE IF key = "workflow_data" /\ IsDict(value)
    THEN MergeWorkflowData(merged, value)
    ELSE value

\* state_utils.py:29-58, the body of the loop for one key of partial_update
MergeKey(current_state, merged, key, value) ==
    IF key = "messages" /\ IsList(value)
    THEN MergeMessages(merged, value)
    ELSE IF key = "workflow_data" /\ IsDict(value)
    THEN MergeWorkflowData(merged, value)
    ELSE IF key \in {"thread_id", "session_id"} /\ Has(current_state, key)
    THEN merged[key]
    ELSE value

\* state_utils.py:5-60.  The keys of a dict are distinct, so each iteration
\* of the loop reads and writes only its own key of merged_state.
merge_partial_state_update(current_state, partial_update) ==
    LET cur == IF \A k \in StateKeys : ~Has(current_state, k) THEN EmptyState ELSE current_state
        merged_state == cur
    IN  [k \in StateKeys |->
            IF Has(partial_update, k)
            THEN MergeKey(cur, merged_state, k, partial_update[k])
            ELSE merged_state[k]]

Raised(dict) == \E k \in StateKeys : dict[k].t = "raise"

(***************************************************************************)
(* Object identity.  An object is named by where it came from: "S" is the  *)
(* object current_state holds under a key, "P" the one partial_update      *)
(* holds, "new" an object the call built.                                  *)
(***************************************************************************)
\* a copy that is the object itself
Copy_Alias(obj) == obj

\* state_utils.py:26, 45: dict.copy() builds a new object
Copy(obj) == "new"

\* state_utils.py:30-58: the object merged_state holds under key after the
\* iteration for that key.  list + list builds a new list (:39); the bag is
\* updated on a copy (:45-47); a replacement stores partial_update's object
MergeKeyObject(current_state, merged, key, value) ==
    IF key = "messages" /\ IsList(value)
    THEN "new"
    ELSE IF key = "workflow_data" /\ IsDict(value)
    THEN IF IsDict(Get(merged, "workflow_data", DictV(EmptyD)))
         THEN IF Has(merged, "workflow_data") THEN Copy("S") ELSE "new"
         ELSE "P"
    ELSE IF key \in {"thread_id", "session_id"} /\ Has(current_state, key)
    THEN "S"
    ELSE "P"

\* state_utils.py:22-60: the objects of the returned dict; a key the loop
\* does not visit keeps the object the shallow copy took from current_state
ResultObjects(current_state, partial_update) ==
    [k \in StateKeys |->
        IF Has(partial_update, k)
        THEN MergeKeyObject(current_state, current_state, k, partial_update[k])
        ELSE IF Has(current_state, k) THEN "S" ELSE "absent"]

\* current_state after the call.  The call writes in place to merged_state
\* (:39, :47, :49, :58) and to merged_workflow_data (:46), both copies.
CurrentAfter(current_state, partial_update) ==
    LET result == merge_partial_state_update(current_state, partial_update)
        was_empty == \A k \in StateKeys : ~Has(current_state, k)
    IN  IF was_empty THEN current_state
        ELSE IF Copy("S") = "S" THEN [k \in StateKeys |->
                 IF k = "workflow_data" \/ ~Raised(result) THEN result[k]
                 ELSE current_state[k]]
        ELSE current_state

\* partial_update after the call: the call only reads it (:29, :39, :46)
PartialAfter(current_state, partial_update) == partial_update

(***************************************************************************)
(* SpecMerge: the arguments are drawn from bounded sets, one call is made. *)
(***************************************************************************)
MessagesArgs == {AbsentV, StrV(1)} \cup {ListV(q) : q \in SeqsUpTo(MsgAtoms, MaxMsgLen)}
CurDataArgs == {AbsentV, StrV(1)} \cup {DictV(f) : f \in [DataKeys -> {0, 1}]}
NewDataArgs == {AbsentV, StrV(2)} \cup {DictV(f) : f \in [DataKeys -> {0, 2}]}
CurScalarArgs == {AbsentV, StrV(1)}
NewScalarArgs == {AbsentV, StrV(2)}

CurrentStates ==
    {[k \in StateKeys |->
        CASE k = "messages" -> m
          [] k = "workflow_data" -> w
          [] k = "thread_id" -> t
          [] k = "session_id" -> s
          [] OTHER -> c] :
     m \in MessagesArgs, w \in CurDataArgs, t \in CurScalarArgs,
     s \in CurScalarArgs, c \in CurScalarArgs}

PartialUpdates ==
    {[k \in StateKeys |->
        CASE k = "messages" -> m
          [] k = "workflow_data" -> w
          [] k = "thread_id" -> t
          [] k = "session_id" -> s
          [] OTHER -> c] :
     m \in MessagesArgs, w \in NewDataArgs, t \in NewScalarArgs,
     s \in NewScalarArgs, c \in NewScalarArgs}

MergeIdle ==
    /\ mS = "none"
    /\ mP = "none"
    /\ mOut = "none"
    /\ mObj = "none"
    /\ mPc = "off"

default_max_retries == 3

RetryIdle ==
    /\ max_retries = default_max_retries
    /\ conn = [id |-> 0, kind |-> "pool", open |-> TRUE]
    /\ rPc = "off"
    /\ rOp = "none"
    /\ retries = 0
    /\ rPlan = <<>>
    /\ rAttempts = <<>>
    /\ rEvents = <<>>
    /\ rOutcome = [kind |-> "none", value |-> "none"]

(***************************************************************************)
(* The engine's data.  A state (the graph's channel values) is a function  *)
(* from the keys present to their values, as a Python dict is.             *)
(***************************************************************************)
Threads == {"t1", "t2"}
Callers == {"c1", "c2"}
StartContents == {"m0"}              \* message contents a caller may start with
Contents == {"m1", "m2"}             \* message contents a caller may resume with
WorkflowNames == {"sample", "nonexistent"}
MaxCalls == 3                        \* requests served in one run

START == "__start__"
END == "__end__"
NoDict == [k \in {} |-> 0]           \* {}

\* index.py:52-57 WorkflowMessage, and the BaseMessage built from it
WorkflowMessage(content) == [content |-> content, type |-> "text", role |-> "user"]
BaseMessage(content, type, role) ==
    [obj |-> "BaseMessage", content |-> content, type |-> type, role |-> role]

\* index.py:43-49 BaseWorkflowState and sample/index.py:9-12 WorkflowState:
\* the keys that are channels of the compiled graph
SchemaKeys == {"messages", "user_input", "current_step", "thread_id",
               "workflow_data", "org_context"}

\* a checkpoint: the channel values, the nodes to run next, and the node
\* that wrote last
NoCheckpoint == [exists |-> FALSE, values |-> NoDict, next |-> <<>>, last |-> "none"]

\* a request in progress: pc is "idle", "update" (before update_state),
\* "invoke" (before invoke loads the thread) or "node" (before a node runs);
\* read is the checkpoint the request last read.  Two fields are history:
\* ran, the nodes the request invoked, and from, the next nodes of the
\* checkpoint the request found when it began
NoCall == [pc |-> "idle", op |-> "none", wf |-> "none", tid |-> "none",
           msg |-> "none", read |-> NoCheckpoint, ran |-> <<>>, from |-> <<>>]

\* what a request gave its caller: the envelope, and as history ran, from
\* and fault, the exception a lower layer raised during the request
NoRet == [op |-> "none", status |-> "none", thread_id |-> "none",
          workflow_name |-> "none", state |-> "none", error |-> "none",
          ran |-> <<>>, from |-> <<>>, fault |-> "none"]

EngineIdle ==
    /\ store = [t \in Threads |-> NoCheckpoint]
    /\ call = [c \in Callers |-> NoCall]
    /\ used = {}
    /\ known = {}
    /\ ncalls = 0
    /\ lastRet = NoRet

SerializeIdle ==
    /\ sIn = "none"
    /\ sOut = "none"
    /\ sPc = "off"

ControllerIdle ==
    /\ hReq = "none"
    /\ hResp = "none"
    /\ hPc = "off"

SharedIdle ==
    /\ pConn = [id |-> 0, open |-> TRUE]
    /\ pPc = "off"
    /\ pUses = <<>>
    /\ pIds = {0}

CheckpointerIdle ==
    /\ kEnv = "none"
    /\ kResult = "none"
    /\ kPc = "off"

InitMerge ==
    /\ mS \in CurrentStates
    /\ mP \in PartialUpdates
    /\ mOut = "none"
    /\ mObj = "none"
    /\ mPc = "args"
    /\ RetryIdle
    /\ CheckpointerIdle
    /\ EngineIdle
    /\ SerializeIdle
    /\ ControllerIdle
    /\ SharedIdle

MergeCall ==
    /\ mPc = "args"
    /\ mOut' = merge_partial_state_update(mS, mP)
    /\ mObj' = ResultObjects(mS, mP)
    /\ mS' = CurrentAfter(mS, mP)
    /\ mP' = PartialAfter(mS, mP)
    /\ mPc' = "done"
    /\ UNCHANGED <<retryVars, engineVars, serializeVars, controllerVars, sharedVars, checkpointerVars>>

NextMerge == MergeCall

SpecMerge == InitMerge /\ [][NextMerge]_vars

\* C11 (merge has no side effect): the call leaves current_state and
\* partial_update as they were.  The messages list of the result is a new
\* object when partial_update gives a list, its workflow_data a new object
\* when partial_update gives a mapping and current_state holds a mapping or
\* nothing; a key partial_update does not give keeps current_state's
\* object, and a replaced key holds partial_update's object.
C11_MergeNoSideEffect ==
    [][(mPc = "args" /\ mPc' = "done") =>
         /\ mS' = mS
         /\ mP' = mP
         /\ IsList(mP["messages"]) => mObj'["messages"] = "new"
         /\ (IsDict(mP["workflow_data"]) /\ mS["workflow_data"].t \in {"dict", "absent"})
               => mObj'["workflow_data"] = "new"
         /\ \A k \in StateKeys :
               (~Has(mP, k) /\ Has(mS, k)) => mObj'[k] = "S"
         /\ \A k \in {"messages", "workflow_data"} :
               (Has(mP, k) /\ mObj'[k] # "new") => mObj'[k] = "P"]_vars

C11_Witness ==
    /\ mPc = "done"
    /\ IsDict(mS["workflow_data"]) /\ IsDict(mP["workflow_data"])
    /\ mOut["workflow_data"] # mS["workflow_data"]
    /\ IsList(mS["messages"]) /\ IsList(mP["messages"])
    /\ mObj["messages"] = "new" /\ mObj["workflow_data"] = "new"
    /\ mObj["thread_id"] = "S"

\* C11 as stated: the arguments are unchanged and the result's messages
\* list and workflow_data mapping are always new objects.
C11_ResultObjectsNew ==
    [][(mPc = "args" /\ mPc' = "done") =>
         /\ mS' = mS
         /\ mP' = mP
         /\ IsList(mOut'["messages"]) => mObj'["messages"] = "new"
         /\ IsDict(mOut'["workflow_data"]) => mObj'["workflow_data"] = "new"]_vars

ListOf(v) == IF IsList(v) THEN v.l ELSE <<>>

\* C7 (merge append): when partial_update.messages is a list, the merged
\* messages are current_state.messages followed by partial_update.messages in
\* order; a missing or non-list current_state.messages counts as empty.
C7_MergeAppend ==
    (mPc = "done" /\ IsList(mP["messages"]))
        => mOut["messages"] = ListV(ListOf(mS["messages"]) \o mP["messages"].l)

C7_Witness ==
    /\ mPc = "done"
    /\ IsList(mS["messages"]) /\ IsList(mP["messages"])
    /\ Len(mS["messages"].l) > 0 /\ Len(mP["messages"].l) > 0
    /\ mS["messages"].l # mP["messages"].l
    /\ mOut["messages"].l = mS["messages"].l \o mP["messages"].l

\* C8 (merge immutability): a thread_id or session_id that current_state holds
\* is the one the merged state holds, whatever partial_update gives for it.
C8_MergeImmutable ==
    mPc = "done" =>
        \A k \in {"thread_id", "session_id"} : Has(mS, k) => mOut[k] = mS[k]

C8_Witness ==
    /\ mPc = "done"
    /\ Has(mS, "thread_id") /\ Has(mP, "thread_id")
    /\ mS["thread_id"] # mP["thread_id"]
    /\ mOut["thread_id"] = mS["thread_id"]

C10_MergeTotal ==
    mPc = "done" =>
        /\ ~Raised(mOut)
        /\ Has(mP, "current_step") => mOut["current_step"] = mP["current_step"]
        /\ \A k \in {"thread_id", "session_id"} :
              (Has(mP, k) /\ ~Has(mS, k)) => mOut[k] = mP[k]
        /\ (Has(mP, "messages") /\ ~(IsList(mS["messages"]) /\ IsList(mP["messages"])))
              => mOut["messages"] = mP["messages"]
        /\ (Has(mP, "workflow_data")
               /\ ~(IsDict(mS["workflow_data"]) /\ IsDict(mP["workflow_data"])))
              => mOut["workflow_data"] = mP["workflow_data"]

C10_Witness ==
    /\ mPc = "done"
    /\ mS["messages"].t = "str" /\ IsList(mP["messages"]) /\ Len(mP["messages"].l) > 0
    /\ mS["workflow_data"].t = "str" /\ IsDict(mP["workflow_data"])
    /\ Has(mS, "current_step") /\ Has(mP, "current_step")
    /\ mOut["messages"] = mP["messages"]
    /\ mOut["workflow_data"] = mP["workflow_data"]
    /\ mOut["current_step"] = mP["current_step"]

(***************************************************************************)
(* ResilientPostgresSaver: one store operation run by                      *)
(* _execute_with_retries.  The underlying call (super().put and the like)  *)
(* is the environment: rPlan fixes what its i-th invocation would do on an *)
(* open handle, "S" return a result, "T" raise OperationalError or         *)
(* ConnectionError, "O" raise any other error; invocations past the plan   *)
(* succeed.  A call on a closed connection or pool raises OperationalError.*)
(***************************************************************************)
MaxRetriesArg == 3       \* largest max_retries a saver is constructed with
StoreOps == {"put", "get_tuple", "list", "put_writes", "setup"}
RetryArgs == (0 - 1)..MaxRetriesArg
Plans == [1..(MaxRetriesArg + 1) -> {"S", "T", "O"}]

PlanAt(i) == IF i \in DOMAIN rPlan THEN rPlan[i] ELSE "S"

\* the underlying call, invoked for the i-th time on the handle c
QueryFunc(c, i) == IF c.open THEN PlanAt(i) ELSE "T"

Returned(v) == [kind |-> "returned", value |-> v]
RaisedErr(e) == [kind |-> "raised", value |-> e]

InitRetry ==
    /\ MergeIdle
    /\ CheckpointerIdle
    /\ EngineIdle
    /\ SerializeIdle
    /\ ControllerIdle
    /\ SharedIdle
    /\ max_retries \in RetryArgs
    /\ conn \in {[id |-> 0, kind |-> k, open |-> TRUE] : k \in {"pool", "connection"}}
    /\ rPlan \in Plans
    /\ rPc = "idle"
    /\ rOp = "none"
    /\ retries = 0
    /\ rAttempts = <<>>
    /\ rEvents = <<>>
    /\ rOutcome = [kind |-> "none", value |-> "none"]

\* resilient_postgres_saver.py:30, the loop condition, and what follows it:
\* the next try, or falling off the end of the function (return None)
WhileTest(n) ==
    IF n < max_retries
    THEN /\ rPc' = "try"
         /\ rOutcome' = rOutcome
    ELSE /\ rPc' = "done"
         /\ rOutcome' = Returned("None")

\* resilient_postgres_saver.py:68-81 and :28-30: setup, list, get_tuple, put,
\* put_writes enter _execute_with_retries
ExecuteWithRetries(op) ==
    /\ rPc = "idle"
    /\ rOp' = op
    /\ retries' = 0
    /\ WhileTest(0)
    /\ UNCHANGED <<max_retries, conn, rPlan, rAttempts, rEvents>>
    /\ UNCHANGED <<mergeVars, engineVars, serializeVars, controllerVars, sharedVars, checkpointerVars>>

\* an except clause that catches every exception
IsTransient_All(res) == TRUE

\* resilient_postgres_saver.py:33: except (OperationalError, ConnectionError)
IsTransient(res) == res = "T"

\* a test that never re-raises
Exhausted_Never(n) == FALSE

\* resilient_postgres_saver.py:38: retries >= self.max_retries
Exhausted(n) == n >= max_retries

\* resilient_postgres_saver.py:31-39: one invocation and the except clause
Invoke ==
    /\ rPc = "try"
    /\ LET i == Len(rAttempts) + 1
           res == QueryFunc(conn, i)
       IN  /\ rAttempts' = Append(rAttempts, [id |-> conn.id, open |-> conn.open, res |-> res])
           /\ rEvents' = Append(rEvents, "invoke")
           /\ CASE res = "S" ->
                      /\ rPc' = "done"
                      /\ rOutcome' = Returned("result")
                      /\ retries' = retries
                [] res # "S" /\ IsTransient(res) ->
                      /\ retries' = retries + 1
                      /\ IF Exhausted(retries + 1)
                         THEN /\ rPc' = "done"
                              /\ rOutcome' = RaisedErr("OperationalError")
                         ELSE /\ rPc' = "sleep"
                              /\ rOutcome' = rOutcome
                [] OTHER ->
                      /\ rPc' = "done"
                      /\ rOutcome' = RaisedErr("OtherError")
                      /\ retries' = retries
    /\ UNCHANGED <<max_retries, conn, rOp, rPlan>>
    /\ UNCHANGED <<mergeVars, engineVars, serializeVars, controllerVars, sharedVars, checkpointerVars>>

\* resilient_postgres_saver.py:40: time.sleep(self.retry_delay)
Sleep ==
    /\ rPc = "sleep"
    /\ rPc' = "reconnect"
    /\ rEvents' = Append(rEvents, "sleep")
    /\ UNCHANGED <<max_retries, conn, rOp, retries, rPlan, rAttempts, rOutcome>>
    /\ UNCHANGED <<mergeVars, engineVars, serializeVars, controllerVars, sharedVars, checkpointerVars>>

\* resilient_postgres_saver.py:43-66: close the handle (an error is logged
\* and swallowed), then create a pool or a connection from the same conninfo
\* (an error is logged and swallowed, self.conn keeps the old handle)
Reconnect(c, closed, created) ==
    LET after_close == IF closed THEN [c EXCEPT !.open = FALSE] ELSE c
    IN  IF created
        THEN [id |-> c.id + 1, kind |-> c.kind, open |-> TRUE]
        ELSE after_close

\* resilient_postgres_saver.py:41 and back to the loop condition at :30
ReconnectStep ==
    /\ rPc = "reconnect"
    /\ \E closed \in BOOLEAN, created \in BOOLEAN :
          conn' = Reconnect(conn, closed, created)
    /\ rEvents' = Append(rEvents, "reconnect")
    /\ WhileTest(retries)
    /\ UNCHANGED <<max_retries, rOp, retries, rPlan, rAttempts>>
    /\ UNCHANGED <<mergeVars, engineVars, serializeVars, controllerVars, sharedVars, checkpointerVars>>

NextRetry ==
    \/ \E op \in StoreOps : ExecuteWithRetries(op)
    \/ Invoke
    \/ Sleep
    \/ ReconnectStep

SpecRetry == InitRetry /\ [][NextRetry]_vars

\* the plan lets the underlying call fail transiently n times, then succeed
FailsThenSucceeds(n) ==
    /\ \A i \in 1..n : PlanAt(i) = "T"
    /\ PlanAt(n + 1) = "S"

\* every reconnect so far produced a new open handle
ReconnectsWorked == \A i \in 1..Len(rAttempts) : rAttempts[i].open

\* C4 (retry, then success): with max_retries = N, an operation whose
\* underlying call raises a transient error on its first N invocations and
\* succeeds on the next one returns that result.  Stated for N >= 1, which
\* covers the default configuration.
C4_RetryThenSucceed ==
    (/\ rPc = "done"
     /\ max_retries >= 1
     /\ FailsThenSucceeds(max_retries)
     /\ ReconnectsWorked)
        => rOutcome = Returned("result")

\* C5 (retry, then failure): an operation whose underlying call raises a
\* transient error on max_retries + 1 consecutive invocations ends by raising
\* to the caller; it never returns normally without the write having succeeded.
C5_RetryThenFail ==
    (/\ rPc = "done"
     /\ max_retries >= 0
     /\ \A i \in 1..(max_retries + 1) : PlanAt(i) = "T")
        => rOutcome.kind = "raised"

\* the events between the (i-1)-th and the i-th invocation
InvokeAt(i) == CHOOSE k \in 1..Len(rEvents) :
                   /\ rEvents[k] = "invoke"
                   /\ Cardinality({j \in 1..k : rEvents[j] = "invoke"}) = i
Between(i) == {rEvents[k] : k \in (InvokeAt(i - 1) + 1)..(InvokeAt(i) - 1)}

\* C6 (reconnect before every retry): a reconnect happens between a transient
\* failure and the retry that follows it, and the retry runs on a newly
\* created connection or pool, never on the discarded one.
C6_RetryOnFreshConnection ==
    \A i \in 2..Len(rAttempts) :
        /\ "reconnect" \in Between(i)
        /\ rAttempts[i].open
        /\ rAttempts[i].id # rAttempts[i - 1].id

(***************************************************************************)
(* The engine.  SampleWorkflow compiles a two-node graph with a            *)
(* checkpointer and interrupt_before = ["next_node"]; every key of the     *)
(* state schema is a plain channel, so a write replaces the key's value    *)
(* and a key outside the schema is not stored.  invoke, get_state and      *)
(* update_state are modelled as the graph library runs them for this       *)
(* graph: a checkpoint is put after the input and after every node, a      *)
(* node named in interrupt_before stops the run before it, and a run that  *)
(* is resumed (input None) starts at the checkpoint's next node.           *)
(***************************************************************************)
\* sample/index.py:48-61
EntryPoint == "fetch_context_and_questions"

\* a graph compiled without interrupt points
interrupt_before_None == {}

\* sample/index.py:39-43
interrupt_before == {"next_node"}
Edge(n) ==
    CASE n = START -> EntryPoint
      [] n = "fetch_context_and_questions" -> "next_node"
      [] n = "next_node" -> END
      [] OTHER -> END                \* no edge leaves any other name

NextAfter(n) == IF Edge(n) = END THEN <<>> ELSE <<Edge(n)>>

\* orchestrator.py:14-19
RegisteredWorkflows == {"sample"}

\* dict.get with a default, on a state
GetOr(state, k, default) == IF k \in DOMAIN state THEN state[k] ELSE default

\* channels where "messages" had a reducer that adds the written list to
\* the stored one
ChannelWrite_AddMessages(values, update) ==
    LET w == DOMAIN update \cap SchemaKeys
    IN  [k \in (DOMAIN values) \cup w |->
            IF k \notin w THEN values[k]
            ELSE IF k = "messages" /\ k \in DOMAIN values THEN values[k] \o update[k]
            ELSE update[k]]

\* index.py:43-49: no key of the schema has a reducer, so a write replaces
\* the value of its channel.
\* the writes of a node, of the input or of update_state reaching the channels
ChannelWrite(values, update) ==
    LET w == DOMAIN update \cap SchemaKeys
    IN  [k \in (DOMAIN values) \cup w |-> IF k \in w THEN update[k] ELSE values[k]]

\* a dict with one key set: d[k] = v
SetKey(d, k, v) == [x \in (DOMAIN d) \cup {k} |-> IF x = k THEN v ELSE d[x]]

\* sample/nodes.py:21-85: the partial update a successful run returns
fetch_context_and_questions_node(state) ==
    LET messages == GetOr(state, "messages", <<>>)
        new_message == BaseMessage("org_context", "fetch_context_and_questions_node", "ai")
    IN  [current_step |-> "fetch_context_and_questions_node",
         workflow_data |-> GetOr(state, "workflow_data", {}) \cup {"processed_prompt"},
         org_context |-> "response",
         messages |-> Append(messages, new_message)]

\* sample/nodes.py:87-147: the partial update a successful run returns
next_node(state) ==
    LET messages == GetOr(state, "messages", <<>>)
        final_message == BaseMessage("final_response", "next_node_response", "ai")
    IN  [current_step |-> "llm_completed",
         messages |-> Append(messages, final_message),
         workflow_data |-> GetOr(state, "workflow_data", {}) \cup {"llm_response"}]

\* sample/nodes.py:96-99: next_node raises on an empty history before any call
NodeMustRaise(node, state) ==
    node = "next_node" /\ GetOr(state, "messages", <<>>) = <<>>

NodeUpdate(node, state) ==
    IF node = "next_node" THEN next_node(state)
    ELSE fetch_context_and_questions_node(state)

\* index.py:195-226 on a state: a message object becomes a dict of its
\* content, type and role; the other values of a state are JSON values
SerializeMessage(m) ==
    [obj |-> "dict", content |-> m.content, type |-> m.type, role |-> m.role]

SerializeResult(result) ==
    [k \in DOMAIN result |->
        IF k = "messages"
        THEN [i \in 1..Len(result[k]) |-> SerializeMessage(result[k][i])]
        ELSE result[k]]

\* orchestrator.py:43-57, 81-96, 119-141, 162-178: the result envelopes of a
\* request (req is its record in call)
Envelope(req, status, state) ==
    [op |-> req.op, status |-> status, thread_id |-> req.tid,
     workflow_name |-> req.wf, state |-> state, error |-> "none",
     ran |-> req.ran, from |-> req.from, fault |-> "none"]
ErrorEnvelope(req, error) ==
    [op |-> req.op, status |-> "error", thread_id |-> req.tid,
     workflow_name |-> req.wf, state |-> "none", error |-> error,
     ran |-> req.ran, from |-> req.from, fault |-> error]
\* orchestrator.py:34-35, 73-74, 111-112, 157-158: raised, not returned
RaisedValueError(req) ==
    [op |-> req.op, status |-> "raised", thread_id |-> "none",
     workflow_name |-> req.wf, state |-> "none", error |-> "ValueError",
     ran |-> <<>>, from |-> <<>>, fault |-> "none"]

SuccessStatus(op) ==
    CASE op = "start" -> "started"
      [] op = "chat" -> "continued"
      [] op = "resume_workflow" -> "resumed"

\* caller c is free to make a request
Begin(c) ==
    /\ call[c].pc = "idle"
    /\ ncalls < MaxCalls
    /\ ncalls' = ncalls + 1

\* an initial state that carries another identifier than the thread's
InitialState_OtherThread(message, thread_id) ==
    [messages |-> <<BaseMessage(message.content, message.type, message.role)>>,
     user_input |-> message,
     current_step |-> "start",
     thread_id |-> "other",
     session_id |-> thread_id,
     workflow_data |-> {},
     is_processing |-> TRUE]

\* index.py:154-171: the state start_workflow hands to invoke
InitialState(message, thread_id) ==
    [messages |-> <<BaseMessage(message.content, message.type, message.role)>>,
     user_input |-> message,
     current_step |-> "start",
     thread_id |-> thread_id,
     session_id |-> thread_id,
     workflow_data |-> {},
     is_processing |-> TRUE]

\* the store raises: an error that outlasted the retries of the saver
StoreRaised == "store raised"
NodeRaised == "node raised"

\* an identifier generator that may repeat an identifier
uuid4_Any(taken) == Threads

\* orchestrator.py:38: str(uuid.uuid4()), an identifier not produced before
uuid4(taken) == Threads \ taken

\* every request on a thread configured for thread "t1"
ConfigThread_Fixed(req) == "t1"

\* index.py:101-105, 147-151, 181: RunnableConfig(configurable = {thread_id})
ConfigThread(req) == req.tid

\* orchestrator.py:21-57 and index.py:142-173: start up to the point where
\* invoke has stored the input and is about to run the entry node
OrchestratorStart(c, wf, content) ==
    /\ Begin(c)
    /\ IF wf \notin RegisteredWorkflows
       THEN /\ lastRet' = RaisedValueError([NoCall EXCEPT !.op = "start", !.wf = wf])
            /\ UNCHANGED <<store, call, used, known>>
       ELSE \E thread_id \in uuid4(used), put_ok \in BOOLEAN :
              LET message == WorkflowMessage(content)
                  ckpt == [exists |-> TRUE,
                           values |-> ChannelWrite(NoDict, InitialState(message, thread_id)),
                           next |-> NextAfter(START),
                           last |-> START]
                  req == [NoCall EXCEPT !.op = "start", !.wf = wf, !.tid = thread_id]
              IN  /\ used' = used \cup {thread_id}
                  /\ IF put_ok
                     THEN /\ store' = [store EXCEPT ![thread_id] = ckpt]
                          /\ call' = [call EXCEPT ![c] =
                                       [req EXCEPT !.pc = "node", !.read = ckpt]]
                          /\ UNCHANGED <<known, lastRet>>
                     ELSE /\ lastRet' = ErrorEnvelope(req, StoreRaised)
                          /\ known' = known \cup {thread_id}
                          /\ UNCHANGED <<store, call>>
    /\ UNCHANGED <<mergeVars, retryVars, serializeVars, controllerVars, sharedVars, checkpointerVars>>

\* index.py:108-111: get_state returns a snapshot object for every thread_id
\* (empty values and no next node when nothing is stored), and the test
\* "not curr_state" is false for every snapshot object
SnapshotIsFalsy(snapshot) == FALSE

\* a snapshot whose thread has nothing left to run: the early return taken
IsCompleted_Never(snapshot) == FALSE

\* index.py:113-115: "not curr_state.next"
IsCompleted(snapshot) == snapshot.next = <<>>

\* index.py:117-132: the values resume_workflow hands to update_state
ResumeValues(values, message) ==
    LET values1 == SetKey(values, "is_processing", TRUE)
        values2 == IF "messages" \in DOMAIN values1 THEN values1
                   ELSE SetKey(values1, "messages", <<>>)
    IN  SetKey(values2, "messages",
               Append(values2["messages"],
                      BaseMessage(message.content, message.type, message.role)))

\* orchestrator.py:59-96, 143-178 and index.py:96-132: chat and
\* resume_workflow up to the call of update_state
OrchestratorResume(c, op, wf, thread_id, content) ==
    /\ Begin(c)
    /\ thread_id \in known \/ thread_id \notin used
    /\ LET curr_state == store[thread_id]
           req == [NoCall EXCEPT !.op = op, !.wf = wf, !.tid = thread_id,
                                 !.from = curr_state.next]
       IN  IF wf \notin RegisteredWorkflows
           THEN /\ lastRet' = RaisedValueError(req)
                /\ call' = call
           ELSE \E read_ok \in BOOLEAN :
                IF ~read_ok
                THEN /\ lastRet' = ErrorEnvelope(req, StoreRaised)
                     /\ call' = call
                ELSE IF SnapshotIsFalsy(curr_state)
                THEN /\ lastRet' = ErrorEnvelope(req, "No workflow state found")
                     /\ call' = call
                ELSE IF IsCompleted(curr_state)
                THEN /\ lastRet' = Envelope(req, SuccessStatus(op),
                                            SerializeResult(curr_state.values))
                     /\ call' = call
                ELSE /\ call' = [call EXCEPT ![c] =
                           [req EXCEPT !.pc = "update", !.msg = content,
                                       !.read = curr_state]]
                     /\ lastRet' = lastRet
    /\ UNCHANGED <<store, used, known>>
    /\ UNCHANGED <<mergeVars, retryVars, serializeVars, controllerVars, sharedVars, checkpointerVars>>

\* index.py:135: update_state writes the values over the latest checkpoint,
\* as the node that wrote last; the next node is that node's successor
UpdateState(c) ==
    /\ call[c].pc = "update"
    /\ LET t == ConfigThread(call[c])
           latest == store[t]
           values == ResumeValues(call[c].read.values, WorkflowMessage(call[c].msg))
       IN  \E put_ok \in BOOLEAN :
             IF put_ok
             THEN /\ store' = [store EXCEPT ![t] =
                       [exists |-> TRUE,
                        values |-> ChannelWrite(latest.values, values),
                        next |-> NextAfter(latest.last),
                        last |-> latest.last]]
                  /\ call' = [call EXCEPT ![c].pc = "invoke", ![c].msg = "none",
                                          ![c].read = NoCheckpoint]
                  /\ lastRet' = lastRet
             ELSE /\ lastRet' = ErrorEnvelope(call[c], StoreRaised)
                  /\ call' = [call EXCEPT ![c] = NoCall]
                  /\ store' = store
    /\ UNCHANGED <<used, known, ncalls>>
    /\ UNCHANGED <<mergeVars, retryVars, serializeVars, controllerVars, sharedVars, checkpointerVars>>

\* index.py:138-140: invoke(None) loads the latest checkpoint; with no next
\* node there is nothing to run and the values are the result
InvokeResume(c) ==
    /\ call[c].pc = "invoke"
    /\ LET loaded == store[ConfigThread(call[c])]
       IN  \E read_ok \in BOOLEAN :
           IF ~read_ok
           THEN /\ lastRet' = ErrorEnvelope(call[c], StoreRaised)
                /\ call' = [call EXCEPT ![c] = NoCall]
           ELSE IF loaded.next = <<>>
           THEN /\ lastRet' = Envelope(call[c], SuccessStatus(call[c].op),
                                       SerializeResult(loaded.values))
                /\ call' = [call EXCEPT ![c] = NoCall]
           ELSE /\ call' = [call EXCEPT ![c].pc = "node", ![c].read = loaded]
                /\ lastRet' = lastRet
    /\ UNCHANGED <<store, used, known, ncalls>>
    /\ UNCHANGED <<mergeVars, retryVars, serializeVars, controllerVars, sharedVars, checkpointerVars>>

\* the checkpoint a run puts after a node: the values it holds with the
\* node's update written
AfterNode(loaded, node) ==
    [exists |-> TRUE,
     values |-> ChannelWrite(loaded.values, NodeUpdate(node, loaded.values)),
     next |-> NextAfter(node),
     last |-> node]

\* the run stops after a checkpoint when nothing is next or the next node
\* is an interrupt point (sample/index.py:39-43)
RunStops(ckpt) == ckpt.next = <<>> \/ ckpt.next[1] \in interrupt_before

\* a run whose node raised puts no checkpoint for the step with next
\* moved to the node's successor
CheckpointAfterFailure_Advance(ckpt, node) == [ckpt EXCEPT !.next = NextAfter(node)]

\* index.py:138, 173: the exception of a node leaves invoke before any
\* checkpoint of the step is put; the stored checkpoint stays as it is
CheckpointAfterFailure(ckpt, node) == ckpt

\* index.py:138, 173 and orchestrator.py:41-57, 79-96: invoke runs the next
\* node; an exception of the node or of the store comes back as an error
\* envelope
RunNode(c) ==
    /\ call[c].pc = "node"
    /\ LET t == ConfigThread(call[c])
           loaded == call[c].read
           node == loaded.next[1]
           req == [call[c] EXCEPT !.ran = Append(@, node)]
       IN  \E ok \in BOOLEAN, put_ok \in BOOLEAN :
             IF ~ok \/ NodeMustRaise(node, loaded.values)
             THEN /\ lastRet' = ErrorEnvelope(req, NodeRaised)
                  /\ call' = [call EXCEPT ![c] = NoCall]
                  /\ known' = IF req.op = "start" THEN known \cup {t} ELSE known
                  /\ store' = [store EXCEPT ![t] = CheckpointAfterFailure(@, node)]
             ELSE IF ~put_ok
             THEN /\ lastRet' = ErrorEnvelope(req, StoreRaised)
                  /\ call' = [call EXCEPT ![c] = NoCall]
                  /\ known' = IF req.op = "start" THEN known \cup {t} ELSE known
                  /\ store' = store
             ELSE LET ckpt == AfterNode(loaded, node)
                  IN  /\ store' = [store EXCEPT ![t] = ckpt]
                      /\ IF RunStops(ckpt)
                         THEN /\ lastRet' = Envelope(req, SuccessStatus(req.op),
                                                     SerializeResult(ckpt.values))
                              /\ call' = [call EXCEPT ![c] = NoCall]
                              /\ known' = IF req.op = "start" THEN known \cup {t} ELSE known
                         ELSE /\ call' = [call EXCEPT ![c] = [req EXCEPT !.read = ckpt]]
                              /\ UNCHANGED <<known, lastRet>>
    /\ UNCHANGED <<used, ncalls>>
    /\ UNCHANGED <<mergeVars, retryVars, serializeVars, controllerVars, sharedVars, checkpointerVars>>

\* a snapshot always counts as holding a state
HasState_Always(snapshot) == TRUE

\* index.py:185: "state and state.values"
HasState(snapshot) == ~SnapshotIsFalsy(snapshot) /\ snapshot.values # NoDict

\* index.py:176-189: what get_state of the workflow returns, None when
\* there is no state and None again when reading raised (:188-189)
WorkflowGetState(snapshot, read_ok) ==
    IF ~read_ok THEN [none |-> TRUE, state |-> "none"]
    ELSE IF HasState(snapshot)
    THEN [none |-> FALSE, state |-> SerializeResult(snapshot.values)]
    ELSE [none |-> TRUE, state |-> "none"]

\* orchestrator.py:98-141 and index.py:176-189: get_state
OrchestratorGetState(c, wf, thread_id) ==
    /\ Begin(c)
    /\ thread_id \in known \/ thread_id \notin used
    /\ LET snapshot == store[thread_id]
           req == [NoCall EXCEPT !.op = "get_state", !.wf = wf, !.tid = thread_id]
       IN  IF wf \notin RegisteredWorkflows
           THEN lastRet' = RaisedValueError(req)
           ELSE \E read_ok \in BOOLEAN :
                LET state == WorkflowGetState(snapshot, read_ok)
                    fault == IF read_ok THEN "none" ELSE StoreRaised
                IN  lastRet' =
                      IF state.none
                      THEN [Envelope(req, "not_found", "none") EXCEPT !.fault = fault]
                      ELSE Envelope(req, "found", state.state)
    /\ UNCHANGED <<store, call, used, known>>
    /\ UNCHANGED <<mergeVars, retryVars, serializeVars, controllerVars, sharedVars, checkpointerVars>>

InitEngine ==
    /\ MergeIdle
    /\ CheckpointerIdle
    /\ RetryIdle
    /\ EngineIdle
    /\ SerializeIdle
    /\ ControllerIdle
    /\ SharedIdle

NextEngine ==
    \/ \E c \in Callers, wf \in WorkflowNames, content \in StartContents :
          OrchestratorStart(c, wf, content)
    \/ \E c \in Callers, op \in {"chat", "resume_workflow"}, wf \in WorkflowNames,
          thread_id \in Threads, content \in Contents :
          OrchestratorResume(c, op, wf, thread_id, content)
    \/ \E c \in Callers : UpdateState(c)
    \/ \E c \in Callers : InvokeResume(c)
    \/ \E c \in Callers : RunNode(c)
    \/ \E c \in Callers, wf \in WorkflowNames, thread_id \in Threads :
          OrchestratorGetState(c, wf, thread_id)

SpecEngine == InitEngine /\ [][NextEngine]_vars

\* One caller at a time: a request begins only when no other is in progress.
NoneInProgress == \A c \in Callers : call[c].pc = "idle"

NextSequential ==
    \/ /\ NoneInProgress
       /\ \E c \in Callers, wf \in WorkflowNames, content \in StartContents :
             OrchestratorStart(c, wf, content)
    \/ /\ NoneInProgress
       /\ \E c \in Callers, op \in {"chat", "resume_workflow"}, wf \in WorkflowNames,
             thread_id \in Threads, content \in Contents :
             OrchestratorResume(c, op, wf, thread_id, content)
    \/ \E c \in Callers : UpdateState(c)
    \/ \E c \in Callers : InvokeResume(c)
    \/ \E c \in Callers : RunNode(c)
    \/ /\ NoneInProgress
       /\ \E c \in Callers, wf \in WorkflowNames, thread_id \in Threads :
             OrchestratorGetState(c, wf, thread_id)

SpecSequential == InitEngine /\ [][NextSequential]_vars

ResumeOps == {"chat", "resume_workflow"}
Succeeded(ret) == ret.status \in {"started", "continued", "resumed"}

\* C1 (interrupt and resume round trip, one caller at a time): a start that
\* succeeds has run the entry node only and leaves the thread's checkpoint
\* with next = <<"next_node">>; a resume of a thread found in that state that
\* succeeds has run next_node and leaves the checkpoint with next = <<>>.
C1_RoundTrip ==
    /\ (lastRet.op = "start" /\ Succeeded(lastRet)) =>
          /\ lastRet.ran = <<EntryPoint>>
          /\ store[lastRet.thread_id].next = <<"next_node">>
    /\ (lastRet.op \in ResumeOps /\ Succeeded(lastRet)
          /\ lastRet.from = <<"next_node">>) =>
          /\ lastRet.ran = <<"next_node">>
          /\ store[lastRet.thread_id].next = <<>>

C1_Witness ==
    /\ lastRet.op \in ResumeOps /\ Succeeded(lastRet)
    /\ lastRet.from = <<"next_node">>
    /\ lastRet.ran = <<"next_node">>
    /\ store[lastRet.thread_id].next = <<>>
    /\ store[lastRet.thread_id].last = "next_node"
    /\ Len(store[lastRet.thread_id].values["messages"]) = 4

\* C2 (resume of a completed thread): a chat or resume_workflow request on a
\* thread whose checkpoint has next = <<>> returns the stored state, whatever
\* message it carries, runs no node and leaves every checkpoint as it is.
C2_ResumeCompleted ==
    [][\A c \in Callers, op \in ResumeOps, t \in Threads, content \in Contents :
          (/\ store[t].exists /\ store[t].next = <<>>
           /\ OrchestratorResume(c, op, "sample", t, content))
          => /\ store' = store
             /\ call'[c].pc = "idle"
             /\ lastRet'.ran = <<>>
             /\ lastRet'.fault = "none" =>
                   /\ Succeeded(lastRet')
                   /\ lastRet'.state = SerializeResult(store[t].values)]_vars

C2_Witness ==
    /\ lastRet.op \in ResumeOps /\ Succeeded(lastRet)
    /\ lastRet.from = <<>> /\ lastRet.ran = <<>>
    /\ store[lastRet.thread_id].exists
    /\ store[lastRet.thread_id].next = <<>>
    /\ lastRet.state = SerializeResult(store[lastRet.thread_id].values)
    /\ ncalls = MaxCalls

\* C3 (checkpoint writes of a thread are linearized): a request that writes a
\* thread's checkpoint builds on the checkpoint stored immediately before the
\* write, the one it read, or else fails with ConcurrentModification.
C3_Linearized ==
    [][\A c \in Callers :
          (/\ call[c].pc \in {"update", "node"}
           /\ call'[c] # call[c]
           /\ store'[call[c].tid] # store[call[c].tid])
          => \/ call[c].read = store[call[c].tid]
             \/ lastRet'.error = "ConcurrentModification"]_vars

\* C12 (resume of an unknown thread): a chat or resume_workflow request for
\* a thread_id that has no checkpoint ends with an error given to the
\* caller (and creates no checkpoint).
C12_ResumeNotFound ==
    (/\ lastRet.op \in ResumeOps
     /\ lastRet.workflow_name \in RegisteredWorkflows
     /\ lastRet.fault = "none"
     /\ ~store[lastRet.thread_id].exists)
        => lastRet.status = "error"

\* C13 (unknown workflow): start with a workflow name that is not registered
\* returns an envelope with status 'error' and raises nothing.
C13_StartUnknownWorkflow ==
    (lastRet.op = "start" /\ lastRet.workflow_name \notin RegisteredWorkflows)
        => lastRet.status = "error"

\* C14 (exceptions become envelopes): for a registered workflow, start, chat,
\* resume_workflow and get_state raise nothing, and an exception of a node
\* or of the store during the request comes back as an envelope with status
\* 'error' that carries the thread_id, the workflow name and the error.
C14_ExceptionsBecomeEnvelopes ==
    (lastRet.op # "none" /\ lastRet.workflow_name \in RegisteredWorkflows) =>
        /\ lastRet.status # "raised"
        /\ lastRet.fault # "none" =>
              /\ lastRet.status = "error"
              /\ lastRet.error = lastRet.fault
              /\ lastRet.thread_id \in Threads
              /\ lastRet.workflow_name = "sample"

\* C15 (node failure): the step in which a node raises leaves next of the
\* thread's checkpoint where it was, gives the caller an error envelope, and
\* is the only invocation of that node in the request.
C15_NodeFailure ==
    [][\A c \in Callers :
          (/\ call[c].pc = "node"
           /\ call'[c].pc = "idle"
           /\ lastRet'.fault = NodeRaised)
          => LET node == call[c].read.next[1]
             IN  /\ lastRet'.status = "error"
                 /\ store'[call[c].tid].next = store[call[c].tid].next
                 /\ store'[call[c].tid].values = store[call[c].tid].values
                 /\ lastRet'.ran = Append(call[c].ran, node)
                 /\ \A i \in DOMAIN call[c].ran : call[c].ran[i] # node]_vars

C15_Witness ==
    /\ lastRet.op \in ResumeOps
    /\ lastRet.fault = NodeRaised /\ lastRet.status = "error"
    /\ lastRet.ran = <<"next_node">>
    /\ store[lastRet.thread_id].next = <<"next_node">>
    /\ store[lastRet.thread_id].last = EntryPoint

\* C16 (thread_id never changes): every checkpoint holds, under thread_id,
\* the identifier it is stored under.
C16_ThreadIdFixed ==
    \A t \in Threads :
        store[t].exists =>
            /\ "thread_id" \in DOMAIN store[t].values
            /\ store[t].values["thread_id"] = t

C16_Witness ==
    /\ \A t \in Threads : store[t].exists /\ store[t].values["thread_id"] = t
    /\ \E t \in Threads : store[t].last = "next_node"

IsPrefix(p, q) == Len(p) <= Len(q) /\ \A i \in 1..Len(p) : p[i] = q[i]

\* C17 (messages is append-only): every write of a thread's checkpoint keeps
\* the messages stored before it as a prefix of the messages it stores.
C17_MessagesAppendOnly ==
    [][\A t \in Threads :
          store[t].exists =>
              IsPrefix(store[t].values["messages"], store'[t].values["messages"])]_vars

\* C18 (get_state is a pure read): a get_state request changes no
\* checkpoint, and for a thread_id without a checkpoint it answers
\* 'not_found' with no state.
C18_GetStatePureRead ==
    [][\A c \in Callers, t \in Threads :
          OrchestratorGetState(c, "sample", t)
          => /\ store' = store
             /\ ~store[t].exists =>
                   /\ lastRet'.status = "not_found"
                   /\ lastRet'.state = "none"]_vars

C18_Witness ==
    /\ lastRet.op = "get_state" /\ lastRet.status = "not_found"
    /\ lastRet.fault = "none"
    /\ ~store[lastRet.thread_id].exists
    /\ \E t \in Threads : store[t].exists

\* C19 (get_state tells failure from absence): when reading the checkpoint
\* raises, the envelope of get_state has status 'error'; 'not_found' is
\* given only after a read that succeeded.
C19_GetStateErrorNotAbsent ==
    (lastRet.op = "get_state" /\ lastRet.workflow_name \in RegisteredWorkflows) =>
        /\ lastRet.fault = StoreRaised => lastRet.status = "error"
        /\ lastRet.status = "not_found" => lastRet.fault = "none"

\* C20 (resume persists the message, then runs): update_state stores the
\* messages stored before followed by the caller's message, with
\* is_processing = TRUE, and the node that runs next is given a state whose
\* last message is the caller's.
C20_ResumePersistsThenRuns ==
    [][\A c \in Callers :
          /\ (call[c].pc = "update" /\ call'[c].pc = "invoke") =>
                LET t == call[c].tid
                    m == WorkflowMessage(call[c].msg)
                IN  /\ store'[t].values["messages"] =
                          Append(store[t].values["messages"],
                                 BaseMessage(m.content, m.type, m.role))
                    /\ "is_processing" \in DOMAIN store'[t].values
                    /\ store'[t].values["is_processing"] = TRUE
          /\ (call[c].pc = "invoke" /\ call'[c].pc = "node") =>
                LET messages == call'[c].read.values["messages"]
                IN  /\ messages # <<>>
                    /\ messages[Len(messages)].role = "user"
                    /\ messages[Len(messages)].content \in Contents]_vars

\* C21 (start makes a new thread): start on a registered workflow takes a
\* thread_id that no thread has, touches no other thread's checkpoint, hands
\* the entry node a state with messages = <<the message>>, current_step =
\* "start" and thread_id = the new id, and returns that id in its envelope.
C21_StartFreshThread ==
    [][\A c \in Callers :
          /\ (call[c].pc = "idle" /\ call'[c].pc = "node" /\ call'[c].op = "start") =>
                LET t == call'[c].tid
                    st == call'[c].read.values
                IN  /\ ~store[t].exists
                    /\ t \notin used
                    /\ \A u \in Threads \ {t} : store'[u] = store[u]
                    /\ call'[c].read.next = <<EntryPoint>>
                    /\ \E content \in StartContents :
                          st["messages"] = <<BaseMessage(content, "text", "user")>>
                    /\ st["current_step"] = "start"
                    /\ st["thread_id"] = t
          /\ (call[c].op = "start" /\ call[c].pc # "idle" /\ call'[c].pc = "idle") =>
                lastRet'.thread_id = call[c].tid]_vars

C21_Witness ==
    /\ lastRet.op = "start" /\ Succeeded(lastRet)
    /\ lastRet.thread_id \in Threads
    /\ \A t \in Threads : store[t].exists
    /\ \E t \in Threads \ {lastRet.thread_id} : store[t].last = EntryPoint
    /\ store[lastRet.thread_id].values["thread_id"] = lastRet.thread_id

\* C22 (thread isolation): a step changes the checkpoint of at most the
\* thread of the request that takes the step; the checkpoint of every other
\* thread stays as it is, in every interleaving.
C22_ThreadIsolation ==
    [][\A t \in Threads :
          store'[t] # store[t] =>
              \E c \in Callers :
                  /\ call'[c] # call[c]
                  /\ \/ call[c].pc # "idle" /\ call[c].tid = t
                     \/ call[c].pc = "idle" /\ call'[c].tid = t]_vars

C22_Witness ==
    /\ \A t \in Threads : store[t].exists
    /\ \E t, u \in Threads :
          /\ t # u
          /\ store[t].next = <<>>
          /\ store[u].next = <<"next_node">>
          /\ lastRet.thread_id = t /\ lastRet.op \in ResumeOps

(***************************************************************************)
(* chat and resume_workflow as functions of the thread's checkpoint: the   *)
(* outcomes of one request that runs with no other request in between,     *)
(* composed of the steps above.  An outcome is the checkpoint left, the    *)
(* state returned (NoDict when none is) and the exception raised.          *)
(***************************************************************************)
Outcome(ckpt, result, error) == [ckpt |-> ckpt, result |-> result, error |-> error]

\* index.py:138: invoke(None) from a loaded checkpoint
RECURSIVE InvokeOutcomes(_)
InvokeOutcomes(loaded) ==
    IF loaded.next = <<>>
    THEN {Outcome(loaded, SerializeResult(loaded.values), "none")}
    ELSE LET node == loaded.next[1]
             ckpt == AfterNode(loaded, node)
         IN  {Outcome(CheckpointAfterFailure(loaded, node), NoDict, NodeRaised),
              Outcome(loaded, NoDict, StoreRaised)}
             \cup (IF NodeMustRaise(node, loaded.values) THEN {}
                   ELSE IF RunStops(ckpt)
                   THEN {Outcome(ckpt, SerializeResult(ckpt.values), "none")}
                   ELSE InvokeOutcomes(ckpt))

\* index.py:96-140
resume_workflow(snapshot, message) ==
    {Outcome(snapshot, NoDict, StoreRaised)}
    \cup (IF SnapshotIsFalsy(snapshot)
          THEN {Outcome(snapshot, NoDict, "No workflow state found")}
          ELSE IF IsCompleted(snapshot)
          THEN {Outcome(snapshot, SerializeResult(snapshot.values), "none")}
          ELSE LET updated ==
                       [exists |-> TRUE,
                        values |-> ChannelWrite(snapshot.values,
                                                ResumeValues(snapshot.values, message)),
                        next |-> NextAfter(snapshot.last),
                        last |-> snapshot.last]
               IN  {Outcome(updated, NoDict, StoreRaised)} \cup InvokeOutcomes(updated))

\* a chat_update that returns the stored state and does nothing else
chat_update_Noop(snapshot, message) ==
    {Outcome(snapshot, SerializeResult(snapshot.values), "none")}

\* index.py:191-193
chat_update(snapshot, message) == resume_workflow(snapshot, message)

\* orchestrator.py:40-57, 78-96, 162-179: the envelope made of an outcome
OutcomeEnvelope(o, status, message) ==
    IF o.error = "none"
    THEN [status |-> status, message |-> message, raised |-> "none",
          state |-> o.result, error |-> "none", ckpt |-> o.ckpt]
    ELSE [status |-> "error", message |-> message, raised |-> "none",
          state |-> NoDict, error |-> o.error, ckpt |-> o.ckpt]

RaisedOutcome(snapshot) ==
    [status |-> "none", message |-> "none", raised |-> "ValueError",
     state |-> NoDict, error |-> "none", ckpt |-> snapshot]

\* orchestrator.py:59-96
OrchestratorChat(workflow_name, snapshot, message) ==
    IF workflow_name \notin RegisteredWorkflows
    THEN {RaisedOutcome(snapshot)}
    ELSE {OutcomeEnvelope(o, "continued",
                          IF o.error = "none" THEN "Workflow updated successfully"
                          ELSE "Failed to continue workflow") :
            o \in chat_update(snapshot, message)}

\* orchestrator.py:143-179
OrchestratorResumeWorkflow(workflow_name, snapshot, message) ==
    IF workflow_name \notin RegisteredWorkflows
    THEN {RaisedOutcome(snapshot)}
    ELSE {OutcomeEnvelope(o, "resumed",
                          IF o.error = "none" THEN "Workflow resumed successfully"
                          ELSE "Failed to resume workflow") :
            o \in resume_workflow(snapshot, message)}

\* an envelope without its status and message labels
Unlabelled(e) ==
    [ok |-> e.status # "error", raised |-> e.raised, state |-> e.state,
     error |-> e.error, ckpt |-> e.ckpt]

\* C23 (chat and resume_workflow are the same operation): from every
\* reachable checkpoint of a thread, for every workflow name and message,
\* chat and resume_workflow leave the same checkpoints and return the same
\* states or the same errors; only the status and message labels differ.
C23_ChatIsResume ==
    \A t \in Threads, wf \in WorkflowNames, content \in Contents :
        LET message == WorkflowMessage(content)
            chats == OrchestratorChat(wf, store[t], message)
            resumes == OrchestratorResumeWorkflow(wf, store[t], message)
        IN  /\ {Unlabelled(e) : e \in chats} = {Unlabelled(e) : e \in resumes}
            /\ \A e \in chats : e.status \in {"continued", "error", "none"}
            /\ \A e \in resumes : e.status \in {"resumed", "error", "none"}

C23_Witness ==
    \E t \in Threads :
        /\ store[t].next = <<"next_node">>
        /\ lastRet.op = "chat" /\ lastRet.thread_id = t
        /\ lastRet.fault = NodeRaised
        /\ \E e \in OrchestratorChat("sample", store[t], WorkflowMessage("m2")) :
              e.status = "continued" /\ e.ckpt.next = <<>>
        /\ \E e \in OrchestratorResumeWorkflow("sample", store[t], WorkflowMessage("m2")) :
              e.status = "resumed" /\ e.ckpt.next = <<>>

\* C30 (current_step names the last node): in every stored checkpoint,
\* current_step is 'start', 'error', or the name of the graph node that
\* wrote the checkpoint last.
C30_CurrentStepIsLastNode ==
    \A t \in Threads :
        store[t].exists /\ "current_step" \in DOMAIN store[t].values =>
            store[t].values["current_step"] \in {"start", "error", store[t].last}

(***************************************************************************)
(* _serialize_result over Python values of any shape.  A value is a tuple  *)
(* whose first element is its type.  The text of a string is either a      *)
(* literal or the repr of a value, so that str(x) differs from x.          *)
(***************************************************************************)
MaxItems == 2                        \* longest list passed to the serializer

PyInt(n) == <<"int", n>>
PyStr(s) == <<"str", <<"lit", s>>>>
PyNone == <<"None">>
PyList(items) == <<"list", items>>
PyTuple(items) == <<"tuple", items>>
PyDict(pairs) == <<"dict", pairs>>         \* pairs: <<key, value>> in order
PyObject(name) == <<"object", name>>       \* no content or type attribute
NoAttr == "no attribute"
PyMessage(content, type, role) == <<"message", content, type, role>>
AttributeError == <<"raise", "AttributeError">>

Kind(v) == v[1]

\* str(x)
str(x) == IF Kind(x) = "str" THEN x ELSE <<"str", <<"repr", x>>>>

\* index.py:197, with the guard dropped
NotADict_Never(result) == FALSE

\* index.py:197: not isinstance(result, dict)
NotADict(result) == Kind(result) # "dict"

\* index.py:206-213: one element of a list under the key "messages"
SerializeMsg(msg) ==
    IF Kind(msg) = "message"
    THEN PyDict(<< <<"content", PyStr(msg[2])>>,
                   <<"type", PyStr(msg[3])>>,
                   <<"role", PyStr(IF msg[4] = NoAttr THEN "unknown" ELSE msg[4])>> >>)
    ELSE str(msg)

\* index.py:217: isinstance(value, (str, int, float, bool, type(None)))
IsPrimitive(value) == Kind(value) \in {"str", "int", "float", "bool", "None"}

\* index.py:195-226
RECURSIVE serialize_result(_)
serialize_result(result) ==
    IF NotADict(result)
    THEN PyDict(<< <<"raw_result", str(result)>> >>)
    ELSE IF Kind(result) # "dict"
    THEN AttributeError                    \* result.items() of a non-dict
    ELSE LET Value(key, value) ==
                 IF key = "messages"
                 THEN IF Kind(value) = "list"
                      THEN PyList([i \in 1..Len(value[2]) |-> SerializeMsg(value[2][i])])
                      ELSE str(value)
                 ELSE IF IsPrimitive(value) THEN value
                 ELSE IF Kind(value) = "dict" THEN serialize_result(value)
                 ELSE IF Kind(value) = "list"
                 THEN PyList([i \in 1..Len(value[2]) |->
                                 IF Kind(value[2][i]) = "dict"
                                 THEN serialize_result(value[2][i])
                                 ELSE str(value[2][i])])
                 ELSE str(value)
         IN  PyDict([i \in 1..Len(result[2]) |->
                        <<result[2][i][1], Value(result[2][i][1], result[2][i][2])>>])

\* the arguments tried
Leaves ==
    {PyInt(1), PyStr("s"), PyNone, PyObject("o"),
     PyMessage("hi", "text", "user"), PyMessage("hi", "text", NoAttr)}
Items ==
    Leaves \cup {PyList(<<PyInt(1)>>), PyTuple(<<PyInt(1)>>),
                 PyDict(<< <<"data", PyInt(1)>> >>),
                 PyDict(<< <<"messages", PyList(<<PyMessage("hi", "text", "user")>>)>> >>)}
Lists == {PyList(q) : q \in SeqsUpTo(Items, MaxItems)}
Keys == {"messages", "data"}
Results ==
    Leaves \cup Lists
    \cup {PyDict(<<>>)}
    \cup {PyDict(<< <<k, v>> >>) : k \in Keys, v \in Items \cup Lists}
    \cup {PyDict(<< <<"messages", m>>, <<"data", d>> >>) : m \in Leaves, d \in Leaves}

InitSerialize ==
    /\ sIn \in Results
    /\ sOut = "none"
    /\ sPc = "args"
    /\ MergeIdle
    /\ CheckpointerIdle
    /\ RetryIdle
    /\ EngineIdle
    /\ ControllerIdle
    /\ SharedIdle

SerializeCall ==
    /\ sPc = "args"
    /\ sOut' = serialize_result(sIn)
    /\ sPc' = "done"
    /\ UNCHANGED sIn
    /\ UNCHANGED <<mergeVars, retryVars, engineVars, controllerVars, sharedVars, checkpointerVars>>

NextSerialize == SerializeCall

SpecSerialize == InitSerialize /\ [][NextSerialize]_vars

\* C24 (serialization is total): whatever is passed to _serialize_result,
\* a mapping or not, the call raises nothing and returns a mapping.
C24_SerializeTotal ==
    sPc = "done" => Kind(sOut) = "dict"

C24_Witness ==
    /\ sPc = "done"
    /\ Kind(sIn) = "list" /\ Len(sIn[2]) = MaxItems
    /\ sOut = PyDict(<< <<"raw_result", str(sIn)>> >>)

\* y keeps the structure of x
RECURSIVE Preserves(_, _)
Preserves(x, y) ==
    CASE Kind(x) = "message" ->
            /\ Kind(y) = "dict"
            /\ [i \in 1..Len(y[2]) |-> y[2][i][1]] = <<"content", "type", "role">>
      [] Kind(x) = "object" -> y = str(x)
      [] Kind(x) = "dict" ->
            /\ Kind(y) = "dict"
            /\ Len(y[2]) = Len(x[2])
            /\ \A i \in 1..Len(x[2]) :
                  /\ y[2][i][1] = x[2][i][1]
                  /\ Preserves(x[2][i][2], y[2][i][2])
      [] Kind(x) \in {"list", "tuple"} ->
            /\ Kind(y) \in {"list", "tuple"}
            /\ Len(y[2]) = Len(x[2])
            /\ \A i \in 1..Len(x[2]) : Preserves(x[2][i], y[2][i])
      [] OTHER -> y = x

\* C25 (serialization keeps the structure): a message object becomes a
\* mapping with content, type and role, an unknown object its string, a
\* nested mapping stays a mapping, a nested sequence a sequence of the same
\* length and order, and a primitive, also inside a sequence, is unchanged.
C25_SerializePreserves ==
    sPc = "done" /\ Kind(sIn) = "dict" => Preserves(sIn, sOut)

(***************************************************************************)
(* The HTTP handlers of workflow_controller.py.  A handler's body either   *)
(* returns or raises; what it raises inside its try block goes through the *)
(* handler's own except clauses before it reaches the framework.           *)
(***************************************************************************)
Handlers == {"continue_workflow", "get_workflow_state", "update_workflow_state"}
ThreadIdParams == Threads \cup {" "}

\* workflow_controller.py:102, 241: not thread_id or not thread_id.strip()
Blank(thread_id) == thread_id \in {"", " "}

\* checkpoints a thread can hold: nothing, stopped before next_node, completed
Started(thread_id) ==
    [exists |-> TRUE,
     values |-> ChannelWrite(NoDict, InitialState(WorkflowMessage("m0"), thread_id)),
     next |-> NextAfter(START),
     last |-> START]
Interrupted(thread_id) == AfterNode(Started(thread_id), EntryPoint)
Completed(thread_id) ==
    LET snapshot == Interrupted(thread_id)
        updated == [snapshot EXCEPT
                      !.values = ChannelWrite(snapshot.values,
                                     ResumeValues(snapshot.values, WorkflowMessage("m1")))]
    IN  AfterNode(updated, "next_node")
CheckpointsOf(thread_id) ==
    IF thread_id \in Threads
    THEN {NoCheckpoint, Interrupted(thread_id), Completed(thread_id)}
    ELSE {NoCheckpoint}

\* what the orchestrator answers: the envelope's status and error text, or
\* the ValueError it raises
Answer(status, raised, error) == [status |-> status, raised |-> raised, error |-> error]

\* orchestrator.py:59-96
ChatAnswers(workflow_name, snapshot, message) ==
    {Answer(e.status, e.raised, e.error) :
        e \in OrchestratorChat(workflow_name, snapshot, message)}

\* orchestrator.py:98-141
GetStateAnswers(workflow_name, snapshot) ==
    IF workflow_name \notin RegisteredWorkflows
    THEN {Answer("none", "ValueError", "none")}
    ELSE {Answer(IF WorkflowGetState(snapshot, read_ok).none THEN "not_found" ELSE "found",
                 "none", "none") : read_ok \in BOOLEAN}

\* workflow_controller.py:125: 'not found' in result.get('error', '').lower().
\* The text index.py:111 raises, "No workflow state found for thread_id: ...",
\* does not hold it; the text of an exception of the store or of a node may
\* (in_text)
ContainsNotFound(error, in_text) ==
    error \in {StoreRaised, NodeRaised} /\ in_text

Return(status) == [kind |-> "return", exc |-> "none", code |-> 200, status |-> status]
Raise(exc, code, status) == [kind |-> "raise", exc |-> exc, code |-> code, status |-> status]

\* workflow_controller.py:101-128: the try block of continue_workflow
ContinueBody(thread_id, answer, in_text) ==
    IF Blank(thread_id) THEN Raise("HTTPException", 400, "none")
    ELSE IF answer.raised # "none" THEN Raise(answer.raised, 0, "none")
    ELSE IF answer.status = "continued" THEN Return(answer.status)
    ELSE IF answer.status = "error" /\ ContainsNotFound(answer.error, in_text)
    THEN Raise("HTTPException", 404, answer.status)
    ELSE Raise("HTTPException", 500, answer.status)

\* workflow_controller.py:239-260: the try block of get_workflow_state
GetStateBody(thread_id, answer) ==
    IF Blank(thread_id) THEN Raise("HTTPException", 400, "none")
    ELSE IF answer.raised # "none" THEN Raise(answer.raised, 0, "none")
    ELSE IF answer.status = "found" THEN Return(answer.status)
    ELSE IF answer.status = "not_found" THEN Raise("HTTPException", 404, answer.status)
    ELSE Raise("HTTPException", 500, answer.status)

\* isinstance(exc, cls): HTTPException and ValueError derive from Exception
IsInstance(exc, cls) == cls = exc \/ cls = "Exception"

\* workflow_controller.py:130-148, 262-280: the except clauses, in order,
\* and the status code the framework makes of what leaves the handler
Respond(body, called) ==
    [code |-> IF body.kind = "return" THEN 200
              ELSE IF IsInstance(body.exc, "ValueError") THEN 404
              ELSE IF IsInstance(body.exc, "Exception") THEN 500
              ELSE body.code,
     status |-> body.status,
     raised |-> body.code,
     called |-> called]

InitController ==
    /\ \E handler \in Handlers, workflow_name \in WorkflowNames,
          thread_id \in ThreadIdParams :
          \E checkpoint \in CheckpointsOf(thread_id),
             content \in IF handler = "get_workflow_state" THEN {"none"} ELSE Contents :
              hReq = [handler |-> handler, workflow_name |-> workflow_name,
                      thread_id |-> thread_id, checkpoint |-> checkpoint,
                      content |-> content]
    /\ hResp = "none"
    /\ hPc = "args"
    /\ MergeIdle
    /\ CheckpointerIdle
    /\ RetryIdle
    /\ EngineIdle
    /\ SerializeIdle
    /\ SharedIdle

\* workflow_controller.py:88-148
continue_workflow ==
    /\ hPc = "args"
    /\ hReq.handler = "continue_workflow"
    /\ \E answer \in ChatAnswers(hReq.workflow_name, hReq.checkpoint,
                                 WorkflowMessage(hReq.content)),
          in_text \in BOOLEAN :
          hResp' = Respond(ContinueBody(hReq.thread_id, answer, in_text),
                           ~Blank(hReq.thread_id))
    /\ hPc' = "done"
    /\ UNCHANGED hReq
    /\ UNCHANGED <<mergeVars, retryVars, engineVars, serializeVars, sharedVars, checkpointerVars>>

\* workflow_controller.py:228-280
get_workflow_state ==
    /\ hPc = "args"
    /\ hReq.handler = "get_workflow_state"
    /\ \E answer \in GetStateAnswers(hReq.workflow_name, hReq.checkpoint) :
          hResp' = Respond(GetStateBody(hReq.thread_id, answer), ~Blank(hReq.thread_id))
    /\ hPc' = "done"
    /\ UNCHANGED hReq
    /\ UNCHANGED <<mergeVars, retryVars, engineVars, serializeVars, sharedVars, checkpointerVars>>

\* orchestrator.py:7-183: the methods WorkflowOrchestrator defines
OrchestratorMethods ==
    {"start", "chat", "get_state", "resume_workflow", "get_available_workflows"}

\* workflow_controller.py:170-205: the try block of update_workflow_state;
\* looking up a method the orchestrator does not define raises
\* AttributeError, and the lines after the call never run
UpdateBody(thread_id) ==
    IF Blank(thread_id) THEN Raise("HTTPException", 400, "none")
    ELSE IF "update_state" \notin OrchestratorMethods
    THEN Raise("AttributeError", 0, "none")
    ELSE Return("updated")

\* workflow_controller.py:151-225
update_workflow_state ==
    /\ hPc = "args"
    /\ hReq.handler = "update_workflow_state"
    /\ hResp' = Respond(UpdateBody(hReq.thread_id), FALSE)
    /\ hPc' = "done"
    /\ UNCHANGED hReq
    /\ UNCHANGED <<mergeVars, retryVars, engineVars, serializeVars, sharedVars,
                   checkpointerVars>>

NextController ==
    \/ continue_workflow
    \/ get_workflow_state
    \/ update_workflow_state

SpecController == InitController /\ [][NextController]_vars

\* C26 (blank thread_id is a 400): POST /workflows/{wf}/{thread_id} with an
\* empty or whitespace thread_id answers HTTP 400 and does not call the
\* orchestrator.
C26_BlankThreadIdIs400 ==
    hPc = "done" /\ hReq.handler = "continue_workflow" /\ Blank(hReq.thread_id) =>
        hResp.code = 400 /\ ~hResp.called

\* C27 (status codes of continue): the POST answers 404 when the workflow
\* is not registered and when the thread_id has no checkpoint, and answers
\* 200 only with an envelope whose status is 'continued'.
C27_ContinueStatusCodes ==
    hPc = "done" /\ hReq.handler = "continue_workflow" /\ ~Blank(hReq.thread_id) =>
        /\ hReq.workflow_name \notin RegisteredWorkflows => hResp.code = 404
        /\ hReq.workflow_name \in RegisteredWorkflows /\ ~hReq.checkpoint.exists =>
              hResp.code = 404
        /\ hResp.code = 200 => hResp.status = "continued"

\* C28 (status codes of get state): the GET answers 200 when the envelope's
\* status is 'found', 404 when it is 'not_found', and 500 only when it is
\* 'error'.
C28_GetStateStatusCodes ==
    hPc = "done" /\ hReq.handler = "get_workflow_state" /\ hResp.called =>
        /\ hResp.status = "found" => hResp.code = 200
        /\ hResp.status = "not_found" => hResp.code = 404
        /\ hResp.code = 500 => hResp.status = "error"

(***************************************************************************)
(* Two callers in _execute_with_retries of the one ResilientPostgresSaver  *)
(* the workflow holds.  _reconnect takes no lock, so its close and its     *)
(* assignment to self.conn are separate steps.                             *)
(***************************************************************************)
InitShared ==
    /\ pConn = [id |-> 0, open |-> TRUE]
    /\ pPc = [c \in Callers |-> [pc |-> "try", retries |-> 0]]
    /\ pUses = <<>>
    /\ pIds = {0}
    /\ MergeIdle
    /\ CheckpointerIdle
    /\ RetryIdle
    /\ EngineIdle
    /\ SerializeIdle
    /\ ControllerIdle

\* a reconnect has closed self.conn and has not assigned the new handle yet
Replacing == \E c \in Callers : pPc[c].pc = "closed"

\* resilient_postgres_saver.py:30-39: one invocation of the underlying call
\* on self.conn as it is now, and the except clause
SharedInvoke(c) ==
    /\ pPc[c].pc = "try"
    /\ \E res \in IF pConn.open THEN {"S", "T"} ELSE {"T"} :
          /\ pUses' = Append(pUses, [caller |-> c, id |-> pConn.id, open |-> pConn.open,
                                     replacing |-> Replacing])
          /\ pPc' = [pPc EXCEPT ![c] =
                       IF res = "S" THEN [pc |-> "done", retries |-> @.retries]
                       ELSE IF @.retries + 1 >= default_max_retries
                       THEN [pc |-> "done", retries |-> @.retries + 1]
                       ELSE [pc |-> "sleep", retries |-> @.retries + 1]]
    /\ UNCHANGED <<pConn, pIds>>
    /\ UNCHANGED <<mergeVars, retryVars, engineVars, serializeVars, controllerVars, checkpointerVars>>

\* resilient_postgres_saver.py:40 and :44-47: after the sleep, _reconnect
\* closes self.conn
SharedClose(c) ==
    /\ pPc[c].pc = "sleep"
    /\ pConn' = [pConn EXCEPT !.open = FALSE]
    /\ pPc' = [pPc EXCEPT ![c].pc = "closed"]
    /\ UNCHANGED <<pUses, pIds>>
    /\ UNCHANGED <<mergeVars, retryVars, engineVars, serializeVars, controllerVars, checkpointerVars>>

\* resilient_postgres_saver.py:49-66: _reconnect assigns the new handle to
\* self.conn, or logs the error and leaves self.conn as it is
SharedCreate(c) ==
    /\ pPc[c].pc = "closed"
    /\ \E created \in BOOLEAN :
          IF created
          THEN /\ pConn' = [id |-> Cardinality(pIds), open |-> TRUE]
               /\ pIds' = pIds \cup {Cardinality(pIds)}
          ELSE UNCHANGED <<pConn, pIds>>
    /\ pPc' = [pPc EXCEPT ![c].pc = "try"]
    /\ UNCHANGED pUses
    /\ UNCHANGED <<mergeVars, retryVars, engineVars, serializeVars, controllerVars, checkpointerVars>>

NextShared ==
    \/ \E c \in Callers : SharedInvoke(c)
    \/ \E c \in Callers : SharedClose(c)
    \/ \E c \in Callers : SharedCreate(c)

SpecShared == InitShared /\ [][NextShared]_vars

\* C29 (the connection is replaced atomically): with callers running
\* concurrently, no underlying call runs on a handle that a reconnect has
\* closed and not yet replaced.
C29_NoUseDuringReplacement ==
    \A i \in 1..Len(pUses) : ~(pUses[i].replacing /\ ~pUses[i].open)

\* C35 (no silent return): for every max_retries, zero and negative values
\* included, _execute_with_retries returns only the result of a successful
\* invocation of the wrapped operation; it never returns normally without
\* having invoked it.
C35_ReturnsOnlyAResult ==
    rPc = "done" /\ rOutcome.kind = "returned" =>
        /\ rAttempts # <<>>
        /\ rAttempts[Len(rAttempts)].res = "S"
        /\ rOutcome = Returned("result")

\* SpecRetry with every step of the call eventually taken: the thread that
\* runs _execute_with_retries is not suspended forever
SpecRetryFair == SpecRetry /\ WF_vars(NextRetry)

\* the events of the call are invoke (sleep reconnect invoke)*, up to a
\* sleep or a reconnect under way
OneDelayOneReconnect ==
    /\ rEvents # <<>> => rEvents[1] = "invoke"
    /\ \A k \in 2..Len(rEvents) :
          CASE rEvents[k] = "sleep" -> rEvents[k - 1] = "invoke"
            [] rEvents[k] = "reconnect" -> rEvents[k - 1] = "sleep"
            [] OTHER -> rEvents[k - 1] = "reconnect"
    /\ rPc = "done" /\ rEvents # <<>> => rEvents[Len(rEvents)] = "invoke"

\* C36 (retry is bounded): whatever the store does, _execute_with_retries
\* ends, having invoked the wrapped operation at most max_retries times (not
\* at all when max_retries is not positive), with exactly one delay and then
\* one reconnect between two consecutive invocations and no reconnect after
\* the last invocation.
C36_RetryBounded ==
    /\ [](Len(rAttempts) <= (IF max_retries > 0 THEN max_retries ELSE 0))
    /\ []OneDelayOneReconnect
    /\ (rPc = "try") ~> (rPc = "done")

C36_Witness ==
    /\ rPc = "done"
    /\ max_retries = default_max_retries
    /\ Len(rAttempts) = max_retries
    /\ rEvents = <<"invoke", "sleep", "reconnect", "invoke", "sleep", "reconnect", "invoke">>
    /\ rOutcome = RaisedErr("OperationalError")

\* C37 (only transient failures are retried): an invocation that raises an
\* error that is neither OperationalError nor ConnectionError is the last
\* one; the error reaches the caller with no delay and no reconnect after
\* it and with the connection handle as the invocation found it.
C37_OtherErrorsPropagate ==
    \A i \in 1..Len(rAttempts) :
        rAttempts[i].res = "O" =>
            /\ i = Len(rAttempts)
            /\ rPc = "done"
            /\ rOutcome = RaisedErr("OtherError")
            /\ rEvents[Len(rEvents)] = "invoke"
            /\ conn.id = rAttempts[i].id /\ conn.open = rAttempts[i].open

C37_Witness ==
    /\ rPc = "done"
    /\ Len(rAttempts) = 2
    /\ rAttempts[1].res = "T" /\ rAttempts[2].res = "O"
    /\ rOutcome = RaisedErr("OtherError")
    /\ rEvents = <<"invoke", "sleep", "reconnect", "invoke">>

(***************************************************************************)
(* create_checkpointer: the choice of the store from the environment, the  *)
(* creation of the pool, and setup() of the new ResilientPostgresSaver,    *)
(* which runs under _execute_with_retries as every store operation does.   *)
(***************************************************************************)
Unset == "<unset>"
DatabaseTypes == {Unset, "inmemory", "postgres", "POSTGRES", "sqlite"}
DatabaseUrls == {Unset, "", "postgresql://db"}

\* os.getenv(name, default)
GetEnv(value, default) == IF value = Unset THEN default ELSE value

\* str.lower(), left out
Lower_Identity(text) == text

\* str.lower()
Lower(text) == IF text = "POSTGRES" THEN "postgres" ELSE text

\* index.py:27: not database_url (None and "" alike)
NoUrl(database_url) == database_url \in {Unset, ""}

MemorySaver(pool) == [saver |-> "MemorySaver", raised |-> FALSE, pool |-> pool]
ResilientSaver == [saver |-> "ResilientPostgresSaver", raised |-> FALSE, pool |-> "created"]
NoSaver == [saver |-> "none", raised |-> FALSE, pool |-> "not tried"]

InitCheckpointer ==
    /\ kEnv \in [DATABASE_TYPE : DatabaseTypes, DATABASE_URL : DatabaseUrls]
    /\ kResult = NoSaver
    /\ kPc = "env"
    /\ max_retries = default_max_retries
    /\ conn = [id |-> 0, kind |-> "pool", open |-> TRUE]
    /\ rPlan \in Plans
    /\ rPc = "off"
    /\ rOp = "none"
    /\ retries = 0
    /\ rAttempts = <<>>
    /\ rEvents = <<>>
    /\ rOutcome = [kind |-> "none", value |-> "none"]
    /\ MergeIdle
    /\ EngineIdle
    /\ SerializeIdle
    /\ ControllerIdle
    /\ SharedIdle

\* index.py:23-29
SelectStore ==
    /\ kPc = "env"
    /\ LET database_type == Lower(GetEnv(kEnv.DATABASE_TYPE, "inmemory"))
       IN  IF database_type # "postgres" \/ NoUrl(kEnv.DATABASE_URL)
           THEN /\ kResult' = MemorySaver("not tried")
                /\ kPc' = "done"
           ELSE /\ kResult' = kResult
                /\ kPc' = "pool"
    /\ UNCHANGED kEnv
    /\ UNCHANGED <<mergeVars, retryVars, engineVars, serializeVars, controllerVars,
                   sharedVars>>

\* index.py:31-33 and :38-40: the pool and the saver are created, or the
\* creation raises and the except clause returns a MemorySaver (pool, a
\* history field, tells whether the creation was tried and how it ended)
CreatePool ==
    /\ kPc = "pool"
    /\ \E created \in BOOLEAN :
          IF created
          THEN /\ kPc' = "setup"
               /\ kResult' = [kResult EXCEPT !.pool = "created"]
               /\ rPc' = "idle"
          ELSE /\ kPc' = "done"
               /\ kResult' = MemorySaver("raised")
               /\ rPc' = rPc
    /\ UNCHANGED kEnv
    /\ UNCHANGED <<max_retries, conn, rOp, retries, rPlan, rAttempts, rEvents, rOutcome>>
    /\ UNCHANGED <<mergeVars, engineVars, serializeVars, controllerVars, sharedVars>>

\* index.py:34-40: setup() has ended; its exception is caught
ReturnCheckpointer ==
    /\ kPc = "setup"
    /\ rPc = "done"
    /\ kResult' = IF rOutcome.kind = "raised" THEN MemorySaver("created") ELSE ResilientSaver
    /\ kPc' = "done"
    /\ UNCHANGED kEnv
    /\ UNCHANGED <<mergeVars, retryVars, engineVars, serializeVars, controllerVars,
                   sharedVars>>

NextCheckpointer ==
    \/ SelectStore
    \/ CreatePool
    \/ ExecuteWithRetries("setup")
    \/ Invoke
    \/ Sleep
    \/ ReconnectStep
    \/ ReturnCheckpointer

SpecCheckpointer == InitCheckpointer /\ [][NextCheckpointer]_vars

\* DATABASE_TYPE names postgres, in any letter case
NamesPostgres(database_type) == database_type \in {"postgres", "POSTGRES"}

\* C31 (checkpointer selection never fails): create_checkpointer raises
\* nothing and returns a checkpointer; it returns the resilient store exactly
\* when DATABASE_TYPE is 'postgres' in any letter case, DATABASE_URL is set
\* and not empty, the pool was created and setup ended without raising, and
\* the in-memory store in every other case.
C31_CheckpointerSelection ==
    kPc = "done" =>
        /\ ~kResult.raised
        /\ kResult.saver \in {"MemorySaver", "ResilientPostgresSaver"}
        /\ NamesPostgres(kEnv.DATABASE_TYPE) /\ kEnv.DATABASE_URL \notin {Unset, ""} <=>
              kResult.pool # "not tried"
        /\ kResult.saver = "ResilientPostgresSaver" <=>
              /\ NamesPostgres(kEnv.DATABASE_TYPE)
              /\ kEnv.DATABASE_URL \notin {Unset, ""}
              /\ kResult.pool = "created"
              /\ rPc = "done" /\ rOutcome.kind = "returned"

C31_Witness ==
    /\ kPc = "done"
    /\ kEnv.DATABASE_TYPE = "postgres"
    /\ kResult = MemorySaver("created")
    /\ Len(rAttempts) = default_max_retries
    /\ rOutcome = RaisedErr("OperationalError")

\* C31 as the specification words it: the resilient store is returned only
\* when DATABASE_TYPE is 'postgres'.
C31_OnlyLowerCasePostgres ==
    kPc = "done" /\ kResult.saver = "ResilientPostgresSaver" =>
        kEnv.DATABASE_TYPE = "postgres"

\* C32 (PATCH applies a partial update): PATCH /workflows/{wf}/{thread_id}
\* with a non-blank thread_id of an existing thread of a registered workflow
\* and a valid partial update answers HTTP 200 with an envelope of status
\* 'updated'.
C32_PatchUpdates ==
    (/\ hPc = "done"
     /\ hReq.handler = "update_workflow_state"
     /\ ~Blank(hReq.thread_id)
     /\ hReq.workflow_name \in RegisteredWorkflows
     /\ hReq.checkpoint.exists)
        => hResp.code = 200 /\ hResp.status = "updated"

\* the messages the two nodes produce
EntryOutput == BaseMessage("org_context", "fetch_context_and_questions_node", "ai")
FinalOutput == BaseMessage("final_response", "next_node_response", "ai")

\* the step of caller c is a node run that succeeded
NodeSucceeded(c) ==
    /\ call[c].pc = "node"
    /\ call'[c] # call[c]
    /\ ~(call'[c].pc = "idle" /\ lastRet'.status = "error")

\* C33 (no message is duplicated by a node): with one request at a time,
\* each successful node run adds exactly one message, its output, to the
\* thread's persisted messages; after a successful start with m0 they are
\* <<m0, a1>>, and after a following successful resume with m1 they are
\* <<m0, a1, m1, a2>>.
C33_NoDuplicateMessages ==
    [][\A c \in Callers :
          NodeSucceeded(c) =>
              LET t == call[c].tid
                  node == call[c].read.next[1]
                  before == store[t].values["messages"]
                  after == store'[t].values["messages"]
              IN  /\ after = Append(before, IF node = EntryPoint THEN EntryOutput
                                            ELSE FinalOutput)
                  /\ call[c].op = "start" =>
                        \E m0 \in StartContents :
                            after = <<BaseMessage(m0, "text", "user"), EntryOutput>>
                  /\ (call[c].op \in ResumeOps /\ call[c].from = <<"next_node">>
                        /\ Len(before) = 3) =>
                        \E m0 \in StartContents, m1 \in Contents :
                            after = <<BaseMessage(m0, "text", "user"), EntryOutput,
                                      BaseMessage(m1, "text", "user"), FinalOutput>>]_vars

C33_Witness ==
    /\ NoneInProgress
    /\ lastRet.op = "chat" /\ lastRet.status = "continued"
    /\ lastRet.ran = <<"next_node">>
    /\ store[lastRet.thread_id].values["messages"] =
          <<BaseMessage("m0", "text", "user"), EntryOutput,
            BaseMessage("m1", "text", "user"), FinalOutput>>

\* C34 (a failed resume leaves the thread unchanged): when the node run by
\* a chat call on a thread stopped before next_node raises, the checkpoint
\* the call leaves, messages included, is the checkpoint it found.
C34_FailedResumeLeavesThread ==
    NoneInProgress =>
        \A t \in Threads, content \in Contents :
            store[t].next = <<"next_node">> =>
                \A e \in OrchestratorChat("sample", store[t], WorkflowMessage(content)) :
                    e.error = NodeRaised => e.ckpt = store[t]

====
